---- MODULE Spec2Model ----
(***************************************************************************)
(* A model of the RAG evaluation utilities:                                *)
(*   src/utils/evaluation.py            rag_evaluation                     *)
(*   src/utils/langchain_evaluation.py  correctness, qa_generator          *)
(*                                                                         *)
(* One behaviour is one invocation of one of the three functions by a      *)
(* caller.  Every external call (an LLM chain, the retriever) is a pair of *)
(* events in `trace`: a "start" and then a "return" or a "raise".  The     *)
(* code between two external calls is deterministic and runs in the step   *)
(* that completes the first of them.                                       *)
(*                                                                         *)
(* Python strings are sequences of one-character strings; Python values    *)
(* whose type matters (return values) carry their type in a `type` field.  *)
(***************************************************************************)
EXTENDS Integers, Sequences, FiniteSets

VARIABLES
    op,            \* the function the caller invoked ("none" before the call)
    pc,            \* where the invocation stands
    num_questions, \* rag_evaluation: the parameter
    questions,     \* rag_evaluation: the list the loop iterates
    i,             \* rag_evaluation: the loop's 0-based enumerate index
    context_text,  \* rag_evaluation: the joined page contents of this iteration
    console,       \* what was printed, one record per executed print block
    trace,         \* the external calls: start, return and raise events in order
    ret,           \* the value returned to the caller (Unset until it returns)
    err,           \* the exception that reached the caller ("none" if none)
    qa_context,    \* qa_generator: the parameter
    outputs,       \* qa_generator: the LLM's structured output
    grade_inputs,  \* correctness: the three parameters
    grade          \* correctness: the LLM's structured output

vars == <<op, pc, num_questions, questions, i, context_text,
          console, trace, ret, err, qa_context, outputs, grade_inputs, grade>>

ragVars == <<num_questions, questions, i, context_text, console>>
qaVars == <<qa_context, outputs>>
gradeVars == <<grade_inputs, grade>>

(***************************************************************************)
(* Bounds and input sets                                                   *)
(***************************************************************************)
\* Longest text the question-generation LLM returns in the model.
MaxLen == 5

\* Default of the num_questions parameter.
DefaultNumQuestions == 5

NL == "\n"
Chars == {"q", NL}

RECURSIVE TextsOfLen(_)
TextsOfLen(n) ==
    IF n = 0 THEN {<<>>}
    ELSE {Append(s, c) : s \in TextsOfLen(n - 1), c \in Chars}

\* Every text over Chars of length 0..MaxLen: what the generation LLM may answer.
Responses == UNION {TextsOfLen(n) : n \in 0..MaxLen}

\* The values of num_questions the caller passes.
NumQuestionsChoices == {2, DefaultNumQuestions}

Topics == {"climate change"}

\* What retriever.invoke may return: sequences of documents.
Doc(text) == [page_content |-> text]
RetrieverResults == {<<>>, <<Doc(<<"d">>), Doc(<<"e">>)>>}

\* The raw rating text of the evaluation LLM.
Ratings == {<<"5">>, <<"1">>}

\* Inputs and LLM outputs of qa_generator and correctness.
Contexts == {<<>>, <<"c">>, <<"c", "c">>}
OutTexts == {<<>>, <<"a">>}
GradeQuestions == {<<"q">>}
Answers == {<<"p">>, <<"l">>}

\* Errors of an external call.
UpstreamErrors == {"UpstreamFailure"}
StructuredErrors == {"UpstreamFailure", "SchemaViolation"}

(***************************************************************************)
(* Python values                                                           *)
(***************************************************************************)
Unset == [type |-> "unset"]
PyNone == [type |-> "NoneType"]
PyBool(b) == [type |-> "bool", val |-> b]
PyDict(d) == [type |-> "dict", val |-> d]

Event(call, ev, arg) == [call |-> call, ev |-> ev, arg |-> arg]

(***************************************************************************)
(* Pure helpers of rag_evaluation                                          *)
(***************************************************************************)
\* str.split("\n"): cut at every newline, keep every piece, empty ones too.
RECURSIVE SplitFrom(_, _, _)
SplitFrom(s, k, cur) ==
    IF k > Len(s) THEN <<cur>>
    ELSE IF s[k] = NL THEN <<cur>> \o SplitFrom(s, k + 1, <<>>)
    ELSE SplitFrom(s, k + 1, Append(cur, s[k]))

\* Mutant of Split: the empty pieces are dropped.
SplitDropEmpty(s) == SelectSeq(SplitFrom(s, 1, <<>>), LAMBDA piece : piece # <<>>)

Split(s) == SplitFrom(s, 1, <<>>)

\* "\n".join([doc.page_content for doc in context])
RECURSIVE Join(_)
Join(docs) ==
    IF Len(docs) = 0 THEN <<>>
    ELSE IF Len(docs) = 1 THEN docs[1].page_content
    ELSE docs[1].page_content \o <<NL>> \o Join(Tail(docs))

\* Mutant of QuestionAt: the list is walked from its end.
QuestionAtReversed(qs, idx) == qs[Len(qs) - idx]

\* The element enumerate(questions) yields with 0-based index idx.
QuestionAt(qs, idx) == qs[idx + 1]

\* The print block of one iteration: "Evaluated question {i+1}/{num_questions}:",
\* the question, the context and the evaluation.
ConsoleRecord(idx, n, q, ctx, ev) ==
    [progress |-> <<idx + 1, n>>, question |-> q, context |-> ctx, evaluation |-> ev]

\* Mutant of RagReturn: the commented-out return statement is live.
RagReturnReport(qs) == PyDict([questions |-> qs, results |-> <<>>])

\* What rag_evaluation returns when the loop ends: the return statement is
\* commented out, so the function falls off its end.
RagReturn(qs) == PyNone

\* The for statement with idx questions consumed and tr the trace so far: the
\* next iteration starts with its retriever call, or the function returns.
ForNext(qs, idx, tr) ==
    IF idx < Len(qs)
    THEN /\ pc' = "retrieve"
         /\ i' = idx
         /\ trace' = Append(tr, Event("retriever", "start", QuestionAt(qs, idx)))
         /\ ret' = ret
    ELSE /\ pc' = "done"
         /\ i' = i
         /\ trace' = tr
         /\ ret' = RagReturn(qs)

(***************************************************************************)
(* rag_evaluation                                                          *)
(***************************************************************************)
Init ==
    /\ op = "none"
    /\ pc = "idle"
    /\ num_questions = DefaultNumQuestions
    /\ questions = <<>>
    /\ i = 0
    /\ context_text = <<>>
    /\ console = <<>>
    /\ trace = <<>>
    /\ ret = Unset
    /\ err = "none"
    /\ qa_context = <<>>
    /\ outputs = Unset
    /\ grade_inputs = Unset
    /\ grade = Unset

\* The caller invokes rag_evaluation(retriever, nq, topic): the chains are built
\* and question_gen_chain.invoke is issued.
RagCall(nq, topic) ==
    /\ pc = "idle"
    /\ op' = "rag_evaluation"
    /\ pc' = "question_gen"
    /\ num_questions' = nq
    /\ trace' = Append(trace, Event("question_gen", "start",
                                    [num_questions |-> nq, topic |-> topic]))
    /\ UNCHANGED <<questions, i, context_text, console, ret, err>>
    /\ UNCHANGED <<qaVars, gradeVars>>

\* The generation call returns text: it is split into questions and the loop is
\* entered.
GenReturn(text) ==
    /\ pc = "question_gen"
    /\ questions' = Split(text)
    /\ ForNext(Split(text), 0, Append(trace, Event("question_gen", "return", text)))
    /\ UNCHANGED <<op, num_questions, context_text, console, err>>
    /\ UNCHANGED <<qaVars, gradeVars>>

\* An exception of an external call: none of the three functions has a try
\* statement, so it ends the invocation and reaches the caller.
Propagate(call, kind) ==
    /\ pc' = "raised"
    /\ err' = kind
    /\ trace' = Append(trace, Event(call, "raise", kind))
    /\ UNCHANGED <<op, ret, ragVars, qaVars, gradeVars>>

GenRaise(kind) ==
    /\ pc = "question_gen"
    /\ Propagate("question_gen", kind)

\* retriever.invoke(question) returns documents: they are joined and
\* eval_chain.invoke is issued.
RetrieverReturn(docs) ==
    /\ pc = "retrieve"
    /\ context_text' = Join(docs)
    /\ pc' = "evaluate"
    /\ trace' = trace \o
         << Event("retriever", "return", docs),
            Event("eval", "start",
                  [question |-> QuestionAt(questions, i), context |-> Join(docs)]) >>
    /\ UNCHANGED <<op, num_questions, questions, i, console, ret, err>>
    /\ UNCHANGED <<qaVars, gradeVars>>

\* Mutant of RetrieverRaise: the failure is caught per question and the loop
\* goes on with the next one.
RetrieverRaiseIsolated(kind) ==
    /\ pc = "retrieve"
    /\ ForNext(questions, i + 1, Append(trace, Event("retriever", "raise", kind)))
    /\ UNCHANGED <<op, num_questions, questions, context_text, console, err>>
    /\ UNCHANGED <<qaVars, gradeVars>>

RetrieverRaise(kind) ==
    /\ pc = "retrieve"
    /\ Propagate("retriever", kind)

\* eval_chain.invoke returns the rating text: the block is printed and the loop
\* goes on.
EvalReturn(eval_result) ==
    /\ pc = "evaluate"
    /\ console' = Append(console,
                         ConsoleRecord(i, num_questions, QuestionAt(questions, i),
                                       context_text, eval_result))
    /\ ForNext(questions, i + 1, Append(trace, Event("eval", "return", eval_result)))
    /\ UNCHANGED <<op, num_questions, questions, context_text, err>>
    /\ UNCHANGED <<qaVars, gradeVars>>

EvalRaise(kind) ==
    /\ pc = "evaluate"
    /\ Propagate("eval", kind)

(***************************************************************************)
(* qa_generator                                                            *)
(***************************************************************************)
\* The two messages handed to the LLM: the instruction prompt and the
\* generation prompt with the context substituted.
QaMessages(context) ==
    << [role |-> "system", content |-> <<"instruct_prompt">>],
       [role |-> "user", content |-> <<"generation_prompt">> \o context] >>

\* Mutant of QaResult: only the answer is returned.
QaResultAnswerOnly(out) == [type |-> "str", val |-> out.answer]

\* return outputs
QaResult(out) == PyDict(out)

\* The caller invokes qa_generator(context): llm.invoke is issued.
QaCall(context) ==
    /\ pc = "idle"
    /\ op' = "qa_generator"
    /\ pc' = "qa_llm"
    /\ qa_context' = context
    /\ trace' = Append(trace, Event("qa_llm", "start", QaMessages(context)))
    /\ UNCHANGED <<outputs, ret, err, ragVars, gradeVars>>

\* The LLM returns an object of the QA_generator schema: it is returned.
QaReturn(q, a) ==
    /\ pc = "qa_llm"
    /\ outputs' = [question |-> q, answer |-> a]
    /\ ret' = QaResult([question |-> q, answer |-> a])
    /\ pc' = "done"
    /\ trace' = Append(trace, Event("qa_llm", "return", [question |-> q, answer |-> a]))
    /\ UNCHANGED <<op, err, qa_context, ragVars, gradeVars>>

\* Mutant of QaRaise: a first failure is retried once.
QaRaiseRetry(kind) ==
    /\ pc = "qa_llm"
    /\ IF Len(trace) < 3
       THEN /\ trace' = trace \o << Event("qa_llm", "raise", kind),
                                    Event("qa_llm", "start", QaMessages(qa_context)) >>
            /\ UNCHANGED <<op, pc, ret, err, ragVars, qaVars, gradeVars>>
       ELSE Propagate("qa_llm", kind)

\* The LLM call fails (upstream, or the output violates the schema).
QaRaise(kind) ==
    /\ pc = "qa_llm"
    /\ Propagate("qa_llm", kind)

(***************************************************************************)
(* correctness                                                             *)
(***************************************************************************)
\* The f-string with the question, the reference answer and the response.
GraderContext(args) ==
    <<"QUESTION: ">> \o args.inputs.question
    \o <<"GROUND TRUTH ANSWER: ">> \o args.ref_outputs.answer
    \o <<"RESPONSE: ">> \o args.outputs.answer

GraderMessages(args) ==
    << [role |-> "system", content |-> <<"correctness_prompt">>],
       [role |-> "user", content |-> GraderContext(args)] >>

\* The CorrectnessGrade schema: the keys as the class spells them.
CorrectnessGrade(explaination, correct) ==
    [explaination |-> explaination, correct |-> correct]

\* Mutant of CorrectnessResult: the whole grade is returned.
CorrectnessResultGrade(g) == PyDict(g)

\* return grade["correct"]
CorrectnessResult(g) == PyBool(g.correct)

\* The caller invokes correctness(inputs, outputs, ref_outputs): grader_llm.invoke
\* is issued.
CorrectnessCall(question, reference, candidate) ==
    LET args == [inputs |-> [question |-> question],
                 outputs |-> [answer |-> candidate],
                 ref_outputs |-> [answer |-> reference]]
    IN  /\ pc = "idle"
        /\ op' = "correctness"
        /\ pc' = "grader_llm"
        /\ grade_inputs' = args
        /\ trace' = Append(trace, Event("grader_llm", "start", GraderMessages(args)))
        /\ UNCHANGED <<grade, ret, err, ragVars, qaVars>>

\* Mutant of GraderReturn: a grade of false is raised as an error.
GraderReturnFalseIsError(explaination, correct) ==
    /\ pc = "grader_llm"
    /\ grade' = CorrectnessGrade(explaination, correct)
    /\ trace' = Append(trace, Event("grader_llm", "return",
                                    CorrectnessGrade(explaination, correct)))
    /\ IF correct
       THEN /\ ret' = CorrectnessResult(CorrectnessGrade(explaination, correct))
            /\ pc' = "done"
            /\ err' = err
       ELSE /\ ret' = ret
            /\ pc' = "raised"
            /\ err' = "IncorrectAnswer"
    /\ UNCHANGED <<op, grade_inputs, ragVars, qaVars>>

\* The grader LLM returns an object of the CorrectnessGrade schema.
GraderReturn(explaination, correct) ==
    /\ pc = "grader_llm"
    /\ grade' = CorrectnessGrade(explaination, correct)
    /\ ret' = CorrectnessResult(CorrectnessGrade(explaination, correct))
    /\ pc' = "done"
    /\ trace' = Append(trace, Event("grader_llm", "return",
                                    CorrectnessGrade(explaination, correct)))
    /\ UNCHANGED <<op, err, grade_inputs, ragVars, qaVars>>

GraderRaise(kind) ==
    /\ pc = "grader_llm"
    /\ Propagate("grader_llm", kind)

Next ==
    \/ \E nq \in NumQuestionsChoices, topic \in Topics : RagCall(nq, topic)
    \/ \E text \in Responses : GenReturn(text)
    \/ \E kind \in UpstreamErrors : GenRaise(kind)
    \/ \E docs \in RetrieverResults : RetrieverReturn(docs)
    \/ \E kind \in UpstreamErrors : RetrieverRaise(kind)
    \/ \E r \in Ratings : EvalReturn(r)
    \/ \E kind \in UpstreamErrors : EvalRaise(kind)
    \/ \E context \in Contexts : QaCall(context)
    \/ \E q \in OutTexts, a \in OutTexts : QaReturn(q, a)
    \/ \E kind \in StructuredErrors : QaRaise(kind)
    \/ \E q \in GradeQuestions, reference \in Answers, candidate \in Answers :
            CorrectnessCall(q, reference, candidate)
    \/ \E e \in OutTexts, c \in BOOLEAN : GraderReturn(e, c)
    \/ \E kind \in StructuredErrors : GraderRaise(kind)

Spec == Init /\ [][Next]_vars

(***************************************************************************)
(* Reading the trace                                                       *)
(***************************************************************************)
Starts(call) == SelectSeq(trace, LAMBDA e : e.call = call /\ e.ev = "start")
Returns(call) == SelectSeq(trace, LAMBDA e : e.call = call /\ e.ev = "return")
LastEvent == trace[Len(trace)]
Completions == {"return", "raise"}

InRag == op = "rag_evaluation"
InQa == op = "qa_generator"
InCorrectness == op = "correctness"

\* The text the question-generation call returned (the second event of a
\* rag_evaluation trace, once it is a return).
GenText == trace[2].arg

NewlineCount(s) == Cardinality({k \in 1..Len(s) : s[k] = NL})

\* The texts of a sequence written one after the other with a newline between.
RECURSIVE Lines(_)
Lines(ts) ==
    IF Len(ts) = 0 THEN <<>>
    ELSE IF Len(ts) = 1 THEN ts[1]
    ELSE ts[1] \o <<NL>> \o Lines(Tail(ts))

(***************************************************************************)
(* C1: rag_evaluation called with num_questions = 5 and completing without *)
(* an error has issued exactly 1 question-generation call and exactly 5    *)
(* retriever calls, whatever text the generation call returned.            *)
(***************************************************************************)
C1_FiveQuestionsFiveRetrievals ==
    (InRag /\ pc = "done" /\ num_questions = 5)
        => /\ Len(Starts("question_gen")) = 1
           /\ Len(Starts("retriever")) = 5

(***************************************************************************)
(* C2: the external calls of rag_evaluation are strictly sequential and    *)
(* ordered.  Every call is completed before the next one starts (at most   *)
(* one is in progress), the generation call comes first, then for each     *)
(* question its retriever call and then its evaluation call, and the k-th  *)
(* retriever and evaluation calls are about the k-th question.             *)
(***************************************************************************)
C2_CallsSequentialOrdered ==
    InRag =>
        /\ \A k \in 1..Len(trace) :
              IF k % 2 = 1
              THEN /\ trace[k].ev = "start"
                   /\ k > 1 => trace[k - 1].ev = "return"
                   /\ trace[k].call = (IF k = 1 THEN "question_gen"
                                       ELSE IF k % 4 = 3 THEN "retriever" ELSE "eval")
              ELSE /\ trace[k].ev \in Completions
                   /\ trace[k].call = trace[k - 1].call
        /\ \A m \in 1..Len(Starts("retriever")) :
              /\ m <= Len(questions)
              /\ Starts("retriever")[m].arg = questions[m]
        /\ \A m \in 1..Len(Starts("eval")) :
              /\ m <= Len(questions)
              /\ Starts("eval")[m].arg.question = questions[m]

C2_Witness ==
    /\ InRag /\ pc = "done"
    /\ Len(Returns("eval")) >= 2
    /\ questions[1] # questions[2]

(***************************************************************************)
(* C3: an exception of the generation call, of a retriever call or of an   *)
(* evaluation call aborts rag_evaluation.  The raise is the last event of  *)
(* the trace (no later call, no retry), the error reaches the caller,      *)
(* nothing is returned, and nothing is printed for the failing question:   *)
(* the console holds exactly the blocks of the evaluations that returned.  *)
(***************************************************************************)
C3_FailureAborts ==
    InRag =>
        /\ \A k \in 1..Len(trace) :
              trace[k].ev = "raise"
                  => /\ k = Len(trace)
                     /\ pc = "raised"
                     /\ err = trace[k].arg
                     /\ ret = Unset
                     /\ Len(console) = Len(Returns("eval"))
        /\ pc = "raised" => LastEvent.ev = "raise"
        /\ pc # "raised" => err = "none"

C3_Witness ==
    /\ InRag /\ pc = "raised"
    /\ LastEvent.call = "retriever"
    /\ Len(console) = 1
    /\ Len(questions) >= 3

(***************************************************************************)
(* C4: rag_evaluation returns no report.  When it completes its return     *)
(* value is None; its output is one console block per evaluation call that *)
(* returned, holding that call's question, the joined retrieved context    *)
(* and the raw rating text.                                                *)
(***************************************************************************)
C4_NoReportOnlyConsole ==
    InRag =>
        /\ pc = "done" => ret = PyNone
        /\ pc # "done" => ret = Unset
        /\ Len(console) = Len(Returns("eval"))
        /\ \A m \in 1..Len(console) :
              /\ console[m].question = Starts("eval")[m].arg.question
              /\ console[m].context = Starts("eval")[m].arg.context
              /\ console[m].context = Lines([d \in 1..Len(Returns("retriever")[m].arg)
                                               |-> Returns("retriever")[m].arg[d].page_content])
              /\ console[m].evaluation = Returns("eval")[m].arg

C4_Witness ==
    /\ InRag /\ pc = "done"
    /\ Len(console) >= 2
    /\ console[1].evaluation # console[2].evaluation
    /\ NewlineCount(console[1].context) = 1

(***************************************************************************)
(* C5: qa_generator issues exactly one LLM invocation and never retries.   *)
(* A failure of it (SchemaViolation or upstream) reaches the caller and    *)
(* ends the call; on success the object the LLM returned is the return     *)
(* value, unchanged.                                                       *)
(***************************************************************************)
C5_QaOneCallNoRetry ==
    InQa =>
        /\ Len(Starts("qa_llm")) = 1
        /\ Len(trace) <= 2
        /\ pc \in {"qa_llm", "done", "raised"}
        /\ pc = "qa_llm" => Len(trace) = 1 /\ ret = Unset /\ err = "none"
        /\ pc = "raised" => /\ LastEvent.ev = "raise"
                            /\ err = LastEvent.arg
                            /\ ret = Unset
        /\ pc = "done" => /\ LastEvent.ev = "return"
                          /\ err = "none"
                          /\ ret.type = "dict"
                          /\ ret.val = LastEvent.arg

C5_Witness ==
    /\ InQa /\ pc = "raised"
    /\ err = "SchemaViolation"

(***************************************************************************)
(* C6 as claimed: when the grader LLM call succeeds, correctness returns a *)
(* record with an explanation string and a correct boolean.                *)
(***************************************************************************)
C6_ReturnsGradeResult ==
    (InCorrectness /\ pc = "done")
        => /\ ret.type = "dict"
           /\ DOMAIN ret.val = {"explanation", "correct"}

(***************************************************************************)
(* C6 amended: when the grader LLM call succeeds, correctness returns a    *)
(* bare boolean.  The record with the explanation is the LLM's output; it  *)
(* stays inside the function.                                              *)
(***************************************************************************)
C6_ReturnsBareBoolean ==
    (InCorrectness /\ pc = "done")
        => /\ DOMAIN ret = {"type", "val"}
           /\ ret.type = "bool"
           /\ ret.val \in BOOLEAN
           /\ DOMAIN grade = {"explaination", "correct"}

C6_Witness ==
    /\ InCorrectness /\ pc = "done"
    /\ grade.explaination # <<>>
    /\ ret.type = "bool"

(***************************************************************************)
(* C7 as claimed: for a non-empty context, whenever qa_generator returns,  *)
(* the pair has a question and an answer and both are non-empty strings.   *)
(***************************************************************************)
C7_FieldsNonEmpty ==
    (InQa /\ pc = "done" /\ qa_context # <<>>)
        => /\ ret.type = "dict"
           /\ DOMAIN ret.val = {"question", "answer"}
           /\ ret.val.question # <<>>
           /\ ret.val.answer # <<>>

(***************************************************************************)
(* C7 amended: for a non-empty context, whenever qa_generator returns, the *)
(* pair has a question and an answer and both are strings; either may be   *)
(* the empty string.                                                       *)
(***************************************************************************)
C7_FieldsPresentStrings ==
    (InQa /\ pc = "done" /\ qa_context # <<>>)
        => /\ ret.type = "dict"
           /\ DOMAIN ret.val = {"question", "answer"}
           /\ ret.val.question \in Seq(STRING)
           /\ ret.val.answer \in Seq(STRING)

C7_Witness ==
    /\ InQa /\ pc = "done" /\ qa_context # <<>>
    /\ ret.type = "dict"
    /\ ret.val.question = <<>>
    /\ ret.val.answer # <<>>

(***************************************************************************)
(* C8: a verdict of false is a result, not an error.  correctness issues   *)
(* exactly one LLM call; when that call returns, the function returns the  *)
(* boolean of the grade's correct field and raises nothing; it ends with   *)
(* an error only when the LLM call raised.                                 *)
(***************************************************************************)
C8_FalseIsAResult ==
    InCorrectness =>
        /\ Len(Starts("grader_llm")) = 1
        /\ Len(trace) = 2
              => IF trace[2].ev = "return"
                 THEN /\ pc = "done"
                      /\ err = "none"
                      /\ ret.type = "bool"
                      /\ ret.val = trace[2].arg.correct
                 ELSE /\ pc = "raised"
                      /\ err = trace[2].arg
                      /\ ret = Unset
        /\ Len(trace) = 1 => pc = "grader_llm" /\ err = "none" /\ ret = Unset
        /\ Len(trace) <= 2

C8_Witness ==
    /\ InCorrectness /\ pc = "done"
    /\ ret.type = "bool"
    /\ ret.val = FALSE

(***************************************************************************)
(* C9: the questions are the generation response cut at its newlines and   *)
(* nothing else.  When rag_evaluation completes, the number of retriever   *)
(* calls and of evaluation calls is the number of newlines plus one, the   *)
(* queries contain no newline, written with newlines between them they     *)
(* give back the response, and the k-th evaluation call has the k-th       *)
(* query as its question.                                                  *)
(***************************************************************************)
C9_QuestionsAreTheSegments ==
    (InRag /\ pc = "done") =>
        LET queries == [m \in 1..Len(Starts("retriever"))
                          |-> Starts("retriever")[m].arg]
        IN  /\ Len(queries) = NewlineCount(GenText) + 1
            /\ Len(Starts("eval")) = NewlineCount(GenText) + 1
            /\ \A m \in 1..Len(queries) : NewlineCount(queries[m]) = 0
            /\ Lines(queries) = GenText
            /\ \A m \in 1..Len(Starts("eval")) :
                  m <= Len(queries) /\ Starts("eval")[m].arg.question = queries[m]

C9_Witness ==
    /\ InRag /\ pc = "done"
    /\ Len(Starts("retriever")) > num_questions
    /\ \E m \in 1..Len(questions) : questions[m] = <<>>
    /\ \E m \in 1..Len(questions) : questions[m] # <<>>

(***************************************************************************)
(* C10: every progress line "Evaluated question i/num_questions" has       *)
(* 1 <= i <= num_questions, the values of i are 1, 2, 3, ... in order, and *)
(* when rag_evaluation completes the last i is num_questions.              *)
(***************************************************************************)
C10_ProgressWithinRequested ==
    InRag =>
        /\ \A m \in 1..Len(console) :
              /\ console[m].progress[1] = m
              /\ console[m].progress[2] = num_questions
              /\ 1 <= console[m].progress[1]
              /\ console[m].progress[1] <= num_questions
        /\ pc = "done" => /\ Len(console) >= 1
                          /\ console[Len(console)].progress[1] = num_questions

====
